---- MODULE Spec2Model ----
(***************************************************************************)
(* Model of the two command-line tools of the deployment tool:             *)
(*   src/app-setup-cli.js    the App Setup Tool                            *)
(*   src/nginx/nginx-cli.js  the Site Manager Tool (add-site, remove-site, *)
(*                           list-sites)                                   *)
(* Each invocation of a tool is one action.  An invocation threads a run   *)
(* context through the statements of its handler, in source order; a       *)
(* statement is skipped once the context has stopped running (process.exit *)
(* was called, or an exception left the handler).                          *)
(***************************************************************************)
EXTENDS Integers, Sequences, FiniteSets, TLC

VARIABLES
    sitesAvailable,   \* /etc/nginx/sites-available: name -> file content
    sitesEnabled,     \* /etc/nginx/sites-enabled:   name -> directory entry
    nginxDirs,        \* which of the two directories exist
    disk,             \* the project files: path -> file content
    nginxInstalled,   \* whether `which nginx` finds the binary
    legacyFsExtra,    \* which ensureSymlink the installed fs-extra provides
    rejectionExit,    \* exit status of the runtime on an unhandled rejection
    run               \* the last invocation: arguments, trace, output, exit

vars == <<sitesAvailable, sitesEnabled, nginxDirs, disk, nginxInstalled, legacyFsExtra,
          rejectionExit, run>>

(***************************************************************************)
(* Input universe.                                                         *)
(***************************************************************************)
Domains == {"example.com", "app.test", ""}
Ports == {"3000", "5000"}
ProjectPaths == {"app"}
MaxFaults == 1

\* External steps that the environment can make fail.

FaultSets(universe) == {F \in SUBSET universe : Cardinality(F) <= MaxFaults}

(***************************************************************************)
(* Generic helpers on functions used as directories.                       *)
(***************************************************************************)
Put(f, k, v) == [x \in (DOMAIN f) \cup {k} |-> IF x = k THEN v ELSE f[x]]
Drop(f, k) == [x \in (DOMAIN f) \ {k} |-> f[x]]

Symlink(target) == [kind |-> "symlink", target |-> target]
RegularFile == [kind |-> "file", target |-> ""]

Effect(op, arg, ok) == [op |-> op, arg |-> arg, ok |-> ok]

(***************************************************************************)
(* Run context of a Site Manager invocation.                               *)
(***************************************************************************)
SiteStart ==
    [status |-> "running", avail |-> sitesAvailable, enabled |-> sitesEnabled,
     dirs |-> nginxDirs, installed |-> nginxInstalled, metadata |-> <<>>, trace |-> <<>>, out |-> <<>>]

Did(c, e) == [c EXCEPT !.trace = Append(@, e)]
Log(c, line) == [c EXCEPT !.out = Append(@, line)]
Throw(c) == [c EXCEPT !.status = "rejected"]
ProcessExit(c) == [c EXCEPT !.status = "exited"]

\* nginx-cli.js has no handler for a rejected action promise; app-setup-cli.js
\* catches the rejection of main() and calls process.exit(1).
SiteExit(c) ==
    CASE c.status = "running" -> 0
      [] c.status = "exited" -> 1
      [] OTHER -> rejectionExit

\* ensureNginxInstalled
ensureNginxInstalled(c, faults) ==
    IF c.installed
    THEN Log(Did(c, Effect("which nginx", "", TRUE)), "Nginx is already installed.")
    ELSE LET c1 == Log(Did(c, Effect("which nginx", "", FALSE)),
                       "Nginx is not installed. Installing Nginx...")
         IN IF "apt-get update" \in faults
            THEN ProcessExit(Log(Did(c1, Effect("apt-get update", "", FALSE)),
                                 "Failed to install Nginx:"))
            ELSE LET c2 == Did(c1, Effect("apt-get update", "", TRUE))
                 IN IF "apt-get install" \in faults
                    THEN ProcessExit(Log(Did(c2, Effect("apt-get install", "", FALSE)),
                                         "Failed to install Nginx:"))
                    ELSE Log([Did(c2, Effect("apt-get install", "", TRUE))
                                 EXCEPT !.installed = TRUE],
                             "Nginx installed successfully.")

(***************************************************************************)
(* generateNginxConfig: the text, as its sequence of lines (indentation    *)
(* and the blank lines between the template's parts dropped).  The         *)
(* server_name slot is an empty line when useDomain is false.              *)
(***************************************************************************)
ServerNameLine(domain) == "server_name " \o domain \o ";"
ProxyPassLine(port) == "proxy_pass http://localhost:" \o port \o ";"

\* a variant that emits the redirect block whenever SSL is on
generateNginxConfigRedirectOnSsl(domain, frontendPort, backendPort, useDomain, useSSL) ==
    LET open == << "server {",
                   IF useDomain THEN ServerNameLine(domain) ELSE "",
                   "location / {",
                   ProxyPassLine(frontendPort),
                   "proxy_set_header Host $host;",
                   "proxy_set_header X-Real-IP $remote_addr;",
                   "}",
                   "location /api {",
                   ProxyPassLine(backendPort),
                   "proxy_set_header Host $host;",
                   "proxy_set_header X-Real-IP $remote_addr;",
                   "}" >>
        listen == IF useSSL
                  THEN << "listen 443 ssl;",
                          "ssl_certificate /etc/letsencrypt/live/" \o domain \o "/fullchain.pem;",
                          "ssl_certificate_key /etc/letsencrypt/live/" \o domain \o "/privkey.pem;" >>
                  ELSE << "listen 80;" >>
        close == << "}" >>
        redirect == IF useSSL
                    THEN << "server {",
                            "listen 80;",
                            ServerNameLine(domain),
                            "return 301 https://$host$request_uri;",
                            "}" >>
                    ELSE << >>
    IN open \o listen \o close \o redirect

generateNginxConfig(domain, frontendPort, backendPort, useDomain, useSSL) ==
    LET open == << "server {",
                   IF useDomain THEN ServerNameLine(domain) ELSE "",
                   "location / {",
                   ProxyPassLine(frontendPort),
                   "proxy_set_header Host $host;",
                   "proxy_set_header X-Real-IP $remote_addr;",
                   "}",
                   "location /api {",
                   ProxyPassLine(backendPort),
                   "proxy_set_header Host $host;",
                   "proxy_set_header X-Real-IP $remote_addr;",
                   "}" >>
        listen == IF useSSL
                  THEN << "listen 443 ssl;",
                          "ssl_certificate /etc/letsencrypt/live/" \o domain \o "/fullchain.pem;",
                          "ssl_certificate_key /etc/letsencrypt/live/" \o domain \o "/privkey.pem;" >>
                  ELSE << "listen 80;" >>
        close == << "}" >>
        redirect == IF useDomain /\ useSSL
                    THEN << "server {",
                            "listen 80;",
                            ServerNameLine(domain),
                            "return 301 https://$host$request_uri;",
                            "}" >>
                    ELSE << >>
    IN open \o listen \o close \o redirect

configName(domain, frontendPort, backendPort, useDomain) ==
    IF useDomain THEN domain ELSE "site_" \o frontendPort \o "_" \o backendPort

(***************************************************************************)
(* JSON as fs-extra reads and writes it.  A JavaScript value is tagged     *)
(* with its type; an object is the sequence of its members in insertion    *)
(* order.  The text of a file is its sequence of lines (the separating     *)
(* commas dropped); a string is written between double quotes, a number    *)
(* bare, and a member whose value is undefined is not written.             *)
(***************************************************************************)
Str(s) == [type |-> "string", val |-> s]
Num(digits) == [type |-> "number", val |-> digits]
Undefined == [type |-> "undefined", val |-> ""]
Member(k, v) == [key |-> k, value |-> v]

JsonKeys == {"domain", "frontendPort", "backendPort", "owner"}
JsonValues == {Str(s) : s \in Domains \cup Ports \cup {"ops"}} \cup {Num(p) : p \in Ports}

JsonLexeme(v) == IF v.type = "string" THEN "\"" \o v.val \o "\"" ELSE v.val
JsonMemberLine(m) == "  \"" \o m.key \o "\": " \o JsonLexeme(m.value)

\* JSON.stringify(object, null, 2)
JsonStringify(object) ==
    LET written == SelectSeq(object, LAMBDA m : m.value.type # "undefined")
    IN <<"{">> \o [i \in 1..Len(written) |-> JsonMemberLine(written[i])] \o <<"}">>

\* JSON.parse: the members whose text the lines are
JsonParseLine(line) ==
    CHOOSE m \in {Member(k, v) : k \in JsonKeys, v \in JsonValues} : JsonMemberLine(m) = line
JsonParse(text) ==
    LET body == SelectSeq(text, LAMBDA l : l # "{" /\ l # "}")
    IN [i \in 1..Len(body) |-> JsonParseLine(body[i])]

\* object.key: the value of the last member of that name, undefined without one
Get(object, k) ==
    LET at == {i \in 1..Len(object) : object[i].key = k}
    IN IF at = {} THEN Undefined
       ELSE object[CHOOSE i \in at : \A j \in at : j <= i].value

\* `${value}` in a template literal
Interpolate(v) == IF v.type = "undefined" THEN "undefined" ELSE v.val

(***************************************************************************)
(* fs-extra primitives on the two Nginx directories.                       *)
(***************************************************************************)
\* fs.outputFile(`/etc/nginx/sites-available/${name}`, text): an empty name is
\* the directory itself, which cannot be written as a file
outputFile(c, name, text, faults) ==
    IF name = "" \/ "outputFile" \in faults
    THEN Throw(Did(c, Effect("outputFile", name, FALSE)))
    ELSE [Did(c, Effect("outputFile", name, TRUE))
             EXCEPT !.avail = Put(@, name, text), !.dirs.available = TRUE]

\* pathExists: fs.access follows symbolic links
pathExists(c, name) ==
    /\ name \in DOMAIN c.enabled
    /\ \/ c.enabled[name].kind = "file"
       \/ c.enabled[name].target \in DOMAIN c.avail

\* fs.symlink: fails when the destination has an entry of any kind
symlink(c, name, faults) ==
    IF name \in DOMAIN c.enabled \/ "ensureSymlink" \in faults
    THEN Throw(Did(c, Effect("ensureSymlink", name, FALSE)))
    ELSE [Did(c, Effect("ensureSymlink", name, TRUE))
             EXCEPT !.enabled = Put(@, name, Symlink(name)), !.dirs.enabled = TRUE]

\* fs.ensureSymlink(available/name, enabled/name).  Up to fs-extra 9 it returns
\* at once when the destination path exists; from fs-extra 10 it returns at once
\* only when the destination is a symbolic link to the same file.
ensureSymlink(c, name, faults) ==
    IF legacyFsExtra
    THEN IF pathExists(c, name)
         THEN Did(c, Effect("ensureSymlink", name, TRUE))
         ELSE symlink(c, name, faults)
    ELSE IF name \in DOMAIN c.enabled /\ c.enabled[name].kind = "symlink"
         THEN IF c.enabled[name].target \notin DOMAIN c.avail
              THEN Throw(Did(c, Effect("ensureSymlink", name, FALSE)))
              ELSE IF c.enabled[name].target = name
                   THEN Did(c, Effect("ensureSymlink", name, TRUE))
                   ELSE symlink(c, name, faults)
         ELSE symlink(c, name, faults)

\* fs.remove(`/etc/nginx/sites-available/${name}`): an absent path is not an
\* error; with an empty name the path is the directory, removed with all it holds
removeAvailable(c, name, faults) ==
    LET present == IF name = "" THEN c.dirs.available ELSE name \in DOMAIN c.avail
    IN IF present /\ "remove available" \in faults
       THEN Throw(Did(c, Effect("remove available", name, FALSE)))
       ELSE IF name = ""
            THEN [Did(c, Effect("remove available", name, TRUE))
                     EXCEPT !.avail = << >>, !.dirs.available = FALSE]
            ELSE [Did(c, Effect("remove available", name, TRUE))
                     EXCEPT !.avail = Drop(@, name)]

\* a variant that leaves the entry of sites-enabled in place
removeEnabledKeepsEntry(c, name, faults) ==
    Did(c, Effect("remove enabled", name, TRUE))

\* fs.remove(`/etc/nginx/sites-enabled/${name}`)
removeEnabled(c, name, faults) ==
    LET present == IF name = "" THEN c.dirs.enabled ELSE name \in DOMAIN c.enabled
    IN IF present /\ "remove enabled" \in faults
       THEN Throw(Did(c, Effect("remove enabled", name, FALSE)))
       ELSE IF name = ""
            THEN [Did(c, Effect("remove enabled", name, TRUE))
                     EXCEPT !.enabled = << >>, !.dirs.enabled = FALSE]
            ELSE [Did(c, Effect("remove enabled", name, TRUE))
                     EXCEPT !.enabled = Drop(@, name)]

obtainSSLCertificate(c, domain, faults) ==
    IF "certbot" \in faults
    THEN Log(Did(c, Effect("certbot", domain, FALSE)), "Error obtaining SSL certificate:")
    ELSE Log(Did(c, Effect("certbot", domain, TRUE)), "SSL certificate obtained successfully.")

\* a variant that lets the failure of the reload leave the handler
reloadNginxUncaught(c, faults) ==
    IF "nginx -s reload" \in faults
    THEN Throw(Did(c, Effect("nginx -s reload", "", FALSE)))
    ELSE Log(Did(c, Effect("nginx -s reload", "", TRUE)), "Nginx reloaded successfully.")

reloadNginx(c, faults) ==
    IF "nginx -s reload" \in faults
    THEN Log(Did(c, Effect("nginx -s reload", "", FALSE)), "Error reloading Nginx:")
    ELSE Log(Did(c, Effect("nginx -s reload", "", TRUE)), "Nginx reloaded successfully.")

\* a statement runs only while the handler is still running
Then(c, Statement(_)) == IF c.status = "running" THEN Statement(c) ELSE c

PathJoin(dir, file) == dir \o "/" \o file

\* fs.readJson(path)
readJson(c, path, faults) ==
    IF path \notin DOMAIN disk \/ "readJson" \in faults
    THEN Throw(Did(c, Effect("readJson", path, FALSE)))
    ELSE [Did(c, Effect("readJson", path, TRUE)) EXCEPT !.metadata = JsonParse(disk[path])]

(***************************************************************************)
(* add-site.  options.metadata is the --metadata flag or the prompt's      *)
(* answer; options.domain and options.ssl are false exactly when           *)
(* --no-domain and --no-ssl are given.                                     *)
(***************************************************************************)
addSite(c0, options, faults) ==
    LET c1 == ensureNginxInstalled(c0, faults)
        c2 == Then(c1, LAMBDA c : readJson(c, options.metadata, faults))
        domain == Interpolate(Get(c2.metadata, "domain"))
        frontendPort == Interpolate(Get(c2.metadata, "frontendPort"))
        backendPort == Interpolate(Get(c2.metadata, "backendPort"))
        useDomain == options.domain # FALSE
        useSSL == options.ssl # FALSE
        nginxConfig == generateNginxConfig(domain, frontendPort, backendPort, useDomain, useSSL)
        name == configName(domain, frontendPort, backendPort, useDomain)
        c3 == Then(c2, LAMBDA c : outputFile(c, name, nginxConfig, faults))
        c4 == Then(c3, LAMBDA c : ensureSymlink(c, name, faults))
        c5 == IF useDomain /\ useSSL
              THEN Then(c4, LAMBDA c : obtainSSLCertificate(c, domain, faults))
              ELSE c4
        c6 == Then(c5, LAMBDA c : reloadNginx(c, faults))
    IN Then(c6, LAMBDA c : Log(c, "Site " \o name \o " added successfully!"))

(***************************************************************************)
(* remove-site.  The identifier is the --domain flag or the prompt's       *)
(* answer.                                                                 *)
(***************************************************************************)
removeSite(c0, domain, faults) ==
    LET c1 == ensureNginxInstalled(c0, faults)
        c2 == Then(c1, LAMBDA c : removeAvailable(c, domain, faults))
        c3 == Then(c2, LAMBDA c : removeEnabled(c, domain, faults))
        c4 == Then(c3, LAMBDA c : reloadNginx(c, faults))
    IN Then(c4, LAMBDA c : Log(c, "Site " \o domain \o " removed successfully!"))

(***************************************************************************)
(* list-sites.  fs.readdir returns the names of a directory in an order    *)
(* the file system chooses.                                                *)
(***************************************************************************)
Orders(S) == {o \in [1..Cardinality(S) -> S] : \A i, j \in DOMAIN o : o[i] = o[j] => i = j}

readdir(c, which, faults) ==
    IF ~c.dirs[which] \/ "readdir" \in faults
    THEN Throw(Did(c, Effect("readdir", which, FALSE)))
    ELSE Did(c, Effect("readdir", which, TRUE))

EnabledLine(site) == "- " \o site \o " (enabled)"
DisabledLine(site) == "- " \o site \o " (disabled)"
Includes(seq, x) == \E i \in DOMAIN seq : seq[i] = x

\* a variant that prints every entry of sites-available as disabled
listSitesEveryAvailable(c0, sitesAvailableList, sitesEnabledList, faults) ==
    LET c1 == ensureNginxInstalled(c0, faults)
        c2 == Then(c1, LAMBDA c : readdir(c, "available", faults))
        c3 == Then(c2, LAMBDA c : readdir(c, "enabled", faults))
        active == [i \in DOMAIN sitesEnabledList |-> EnabledLine(sitesEnabledList[i])]
        available == [i \in DOMAIN sitesAvailableList |-> DisabledLine(sitesAvailableList[i])]
    IN Then(c3, LAMBDA c : [c EXCEPT !.out = @ \o <<"Active sites:">> \o active
                                              \o <<"\nAvailable sites:">> \o available])

listSites(c0, sitesAvailableList, sitesEnabledList, faults) ==
    LET c1 == ensureNginxInstalled(c0, faults)
        c2 == Then(c1, LAMBDA c : readdir(c, "available", faults))
        c3 == Then(c2, LAMBDA c : readdir(c, "enabled", faults))
        active == [i \in DOMAIN sitesEnabledList |-> EnabledLine(sitesEnabledList[i])]
        disabled == SelectSeq(sitesAvailableList,
                              LAMBDA site : ~Includes(sitesEnabledList, site))
        available == [i \in DOMAIN disabled |-> DisabledLine(disabled[i])]
    IN Then(c3, LAMBDA c : [c EXCEPT !.out = @ \o <<"Active sites:">> \o active
                                              \o <<"\nAvailable sites:">> \o available])

(***************************************************************************)
(* The invocations of the Site Manager Tool.  One command runs per         *)
(* process; a command is typed when the previous process has ended.        *)
(***************************************************************************)
NoRun == [cmd |-> "none", args |-> << >>, status |-> "running", trace |-> << >>,
          out |-> << >>, exit |-> 0]

Ready == run = NoRun

AddSiteFaults == {"apt-get update", "apt-get install", "readJson", "outputFile",
                  "ensureSymlink", "certbot", "nginx -s reload"}
RemoveSiteFaults == {"apt-get update", "apt-get install", "remove available",
                     "remove enabled", "nginx -s reload"}
ListSitesFaults == {"apt-get update", "apt-get install", "readdir"}

MetadataPaths == {PathJoin(p, "metadata.json") : p \in ProjectPaths}
Identifiers == {"example.com", "site_3000_5000", "gone.example", ""}

SiteDone(cmd, args, c) ==
    /\ sitesAvailable' = c.avail
    /\ sitesEnabled' = c.enabled
    /\ nginxDirs' = c.dirs
    /\ nginxInstalled' = c.installed
    /\ run' = [cmd |-> cmd, args |-> args, status |-> c.status, trace |-> c.trace,
               out |-> c.out, exit |-> SiteExit(c)]
    /\ UNCHANGED <<disk, legacyFsExtra, rejectionExit>>

AddSiteProcess ==
    \E metadata \in MetadataPaths, domain, ssl \in BOOLEAN, faults \in FaultSets(AddSiteFaults) :
        LET options == [metadata |-> metadata, domain |-> domain, ssl |-> ssl]
        IN SiteDone("add-site", options, addSite(SiteStart, options, faults))

AddSite == Ready /\ AddSiteProcess

RemoveSite ==
    /\ Ready
    /\ \E domain \in Identifiers, faults \in FaultSets(RemoveSiteFaults) :
          SiteDone("remove-site", [domain |-> domain], removeSite(SiteStart, domain, faults))

ListSites ==
    /\ Ready
    /\ \E sitesAvailableList \in Orders(DOMAIN sitesAvailable),
          sitesEnabledList \in Orders(DOMAIN sitesEnabled),
          faults \in FaultSets(ListSitesFaults) :
          SiteDone("list-sites", << >>,
                   listSites(SiteStart, sitesAvailableList, sitesEnabledList, faults))

(***************************************************************************)
(* The App Setup Tool.  options is what promptForMissingOptions returns:   *)
(* the flags merged with the answers to the prompts for the unset ones.    *)
(***************************************************************************)
SetupStart == [status |-> "running", disk |-> disk, trace |-> <<>>, out |-> <<>>]

\* fs.outputFile / fs.writeJson on a project file
writeProjectFile(c, path, text, fault, faults) ==
    IF fault \in faults
    THEN Throw(Did(c, Effect("write", path, FALSE)))
    ELSE [Did(c, Effect("write", path, TRUE)) EXCEPT !.disk = Put(@, path, text)]

FrontendDockerfile ==
    << "FROM node:14", "WORKDIR /app", "COPY package*.json ./", "RUN npm install",
       "COPY . .", "RUN npm run build", "EXPOSE 3000", "CMD [\"npm\", \"start\"]" >>
BackendDockerfile ==
    << "FROM node:14", "WORKDIR /app", "COPY package*.json ./", "RUN npm install",
       "COPY . .", "EXPOSE 5000", "CMD [\"npm\", \"start\"]" >>

generateDockerfiles(c0, projectPath, faults) ==
    LET frontendDockerfile == PathJoin(PathJoin(projectPath, "frontend"), "Dockerfile")
        backendDockerfile == PathJoin(PathJoin(projectPath, "backend"), "Dockerfile")
        c1 == writeProjectFile(c0, frontendDockerfile, FrontendDockerfile,
                               "frontend Dockerfile", faults)
        c2 == Then(c1, LAMBDA c : writeProjectFile(c, backendDockerfile, BackendDockerfile,
                                                   "backend Dockerfile", faults))
    IN Then(c2, LAMBDA c : Log(c, "Dockerfiles generated successfully."))

DockerCompose(frontendPort, backendPort) ==
    << "version: '3'", "services:",
       "frontend:", "build: ./frontend", "ports:", "- \"" \o frontendPort \o ":3000\"",
       "environment:", "- NODE_ENV=production",
       "backend:", "build: ./backend", "ports:", "- \"" \o backendPort \o ":5000\"",
       "environment:", "- NODE_ENV=production" >>

generateDockerCompose(c0, projectPath, frontendPort, backendPort, faults) ==
    LET dockerComposePath == PathJoin(projectPath, "docker-compose.yml")
        c1 == writeProjectFile(c0, dockerComposePath,
                               DockerCompose(frontendPort, backendPort),
                               "docker-compose.yml", faults)
    IN Then(c1, LAMBDA c : Log(c, "docker-compose.yml generated successfully."))

\* a variant that stores the ports as numbers
generateMetadataNumericPorts(c0, projectPath, domain, frontendPort, backendPort, faults) ==
    LET metadataPath == PathJoin(projectPath, "metadata.json")
        metadata == << Member("domain", Str(domain)),
                       Member("frontendPort", Num(frontendPort)),
                       Member("backendPort", Num(backendPort)) >>
        c1 == writeProjectFile(c0, metadataPath, JsonStringify(metadata),
                               "metadata.json", faults)
    IN Then(c1, LAMBDA c : Log(c, "metadata.json generated successfully."))

generateMetadata(c0, projectPath, domain, frontendPort, backendPort, faults) ==
    LET metadataPath == PathJoin(projectPath, "metadata.json")
        metadata == << Member("domain", Str(domain)),
                       Member("frontendPort", Str(frontendPort)),
                       Member("backendPort", Str(backendPort)) >>
        c1 == writeProjectFile(c0, metadataPath, JsonStringify(metadata),
                               "metadata.json", faults)
    IN Then(c1, LAMBDA c : Log(c, "metadata.json generated successfully."))

\* a variant that lets the failure of the launch leave main
startDockerContainersUncaught(c, projectPath, faults) ==
    IF "docker-compose up" \in faults
    THEN Throw(Did(c, Effect("docker-compose up -d", projectPath, FALSE)))
    ELSE Log(Did(c, Effect("docker-compose up -d", projectPath, TRUE)),
             "Docker containers started successfully.")

startDockerContainers(c, projectPath, faults) ==
    IF "docker-compose up" \in faults
    THEN Log(Did(c, Effect("docker-compose up -d", projectPath, FALSE)),
             "Error starting Docker containers:")
    ELSE Log(Did(c, Effect("docker-compose up -d", projectPath, TRUE)),
             "Docker containers started successfully.")

installPM2(c, projectPath, faults) ==
    IF "npm install -g pm2" \in faults
    THEN Log(Did(c, Effect("npm install -g pm2", projectPath, FALSE)), "Error installing PM2:")
    ELSE Log(Did(c, Effect("npm install -g pm2", projectPath, TRUE)),
             "PM2 installed successfully.")

main(c0, options, faults) ==
    LET c1 == generateDockerfiles(c0, options.projectPath, faults)
        c2 == Then(c1, LAMBDA c : generateDockerCompose(c, options.projectPath,
                                      options.frontendPort, options.backendPort, faults))
        c3 == Then(c2, LAMBDA c : generateMetadata(c, options.projectPath, options.domain,
                                      options.frontendPort, options.backendPort, faults))
        c4 == Then(c3, LAMBDA c : startDockerContainers(c, options.projectPath, faults))
        c5 == IF options.pm2
              THEN Then(c4, LAMBDA c : installPM2(c, options.projectPath, faults))
              ELSE c4
    IN Then(c5, LAMBDA c : Log(c, "App setup completed successfully!"))

\* main().catch: a rejection is printed and the process exits with status 1
SetupExit(c) == IF c.status = "running" THEN 0 ELSE 1

SetupFaultNames == {"frontend Dockerfile", "backend Dockerfile", "docker-compose.yml",
                    "metadata.json", "docker-compose up", "npm install -g pm2"}

AppSetup ==
    /\ Ready
    /\ \E projectPath \in ProjectPaths, domain \in Domains, frontendPort, backendPort \in Ports,
       pm2 \in BOOLEAN, faults \in FaultSets(SetupFaultNames) :
        LET options == [projectPath |-> projectPath, domain |-> domain,
                        frontendPort |-> frontendPort, backendPort |-> backendPort,
                        pm2 |-> pm2]
            c == main(SetupStart, options, faults)
        IN /\ disk' = c.disk
           /\ run' = [cmd |-> "app-setup", args |-> options, status |-> c.status,
                      trace |-> c.trace,
                      out |-> IF c.status = "running" THEN c.out
                              ELSE Append(c.out, "An error occurred:"),
                      exit |-> SetupExit(c)]
           /\ UNCHANGED <<sitesAvailable, sitesEnabled, nginxDirs, nginxInstalled,
                          legacyFsExtra, rejectionExit>>

(***************************************************************************)
(* Nothing of a process survives it but the files it wrote: when the       *)
(* process has ended the terminal is ready for the next command.           *)
(***************************************************************************)
ProcessEnds ==
    /\ ~Ready
    /\ run' = NoRun
    /\ UNCHANGED <<sitesAvailable, sitesEnabled, nginxDirs, disk, nginxInstalled,
                   legacyFsExtra, rejectionExit>>

(***************************************************************************)
(* Initial states.                                                         *)
(***************************************************************************)
StaleConfig == << "server {", "listen 80;", "}" >>
StaleMetadata ==
    JsonStringify(<< Member("domain", Str("example.com")), Member("frontendPort", Str("5000")),
                     Member("backendPort", Str("3000")), Member("owner", Str("ops")) >>)
MetadataText(domain, frontendPort, backendPort) ==
    JsonStringify(<< Member("domain", Str(domain)), Member("frontendPort", Str(frontendPort)),
                     Member("backendPort", Str(backendPort)) >>)

\* the directories an operator may have left behind before the tool is used
InitialAvailable == { << >>, [n \in {"example.com"} |-> StaleConfig],
                      [n \in {"site_3000_5000"} |-> StaleConfig] }
InitialEnabled == { << >>, [n \in {"example.com"} |-> Symlink("example.com")],
                    [n \in {"example.com"} |-> Symlink("site_3000_5000")],
                    [n \in {"example.com"} |-> RegularFile] }

Platform ==
    /\ legacyFsExtra \in BOOLEAN
    /\ rejectionExit \in {0, 1}

\* The Site Manager Tool on a host where a project's metadata.json may exist.
InitSite ==
    /\ sitesAvailable \in InitialAvailable
    /\ sitesEnabled \in InitialEnabled
    /\ nginxDirs = [available |-> TRUE, enabled |-> TRUE]
    /\ disk \in { << >> } \cup
                { [p \in MetadataPaths |-> text] :
                    text \in {MetadataText("example.com", "3000", "5000"),
                              MetadataText("", "3000", "5000"),
                              MetadataText("app.test", "5000", "3000"), StaleMetadata} }
    /\ nginxInstalled \in BOOLEAN
    /\ Platform
    /\ run = NoRun

NextSite == AddSite \/ RemoveSite \/ ListSites \/ ProcessEnds

SpecSite == InitSite /\ [][NextSite]_vars

\* The App Setup Tool on a project directory.
InitSetup ==
    /\ sitesAvailable = << >>
    /\ sitesEnabled = << >>
    /\ nginxDirs = [available |-> TRUE, enabled |-> TRUE]
    /\ disk \in { << >>, [p \in MetadataPaths |-> StaleMetadata] }
    /\ nginxInstalled = TRUE
    /\ legacyFsExtra = FALSE
    /\ rejectionExit = 1
    /\ run = NoRun

NextSetup == AppSetup \/ ProcessEnds

SpecSetup == InitSetup /\ [][NextSetup]_vars

\* The two tools in sequence: scaffolding a project, then adding its site.
InitPipeline ==
    /\ sitesAvailable = << >>
    /\ sitesEnabled = << >>
    /\ nginxDirs = [available |-> TRUE, enabled |-> TRUE]
    /\ disk \in { << >>, [p \in MetadataPaths |-> StaleMetadata] }
    /\ nginxInstalled = TRUE
    /\ Platform
    /\ run = NoRun

AddSiteAfterSetup == run.cmd = "app-setup" /\ AddSiteProcess

NextPipeline == AppSetup \/ AddSiteAfterSetup

Spec == InitPipeline /\ [][NextPipeline]_vars

(***************************************************************************)
(* Reading a finished invocation.                                          *)
(***************************************************************************)
Completed(r) == r.status = "running"
Steps(r, op) == {i \in DOMAIN r.trace : r.trace[i].op = op}
Succeeded(r, op) == \E i \in Steps(r, op) : r.trace[i].ok
Failed(r, op) == \E i \in Steps(r, op) : ~r.trace[i].ok
Printed(r, line) == \E i \in DOMAIN r.out : r.out[i] = line
HasLine(text, line) == \E i \in DOMAIN text : text[i] = line

\* the name under which an add-site run wrote its configuration
WrittenName(r) == r.trace[CHOOSE i \in Steps(r, "outputFile") : TRUE].arg

\* the fields of the metadata file an add-site run was pointed at
FieldOnDisk(r, key) == Interpolate(Get(JsonParse(disk[r.args.metadata]), key))

\* the server blocks of a configuration: each runs from a "server {" line to
\* the line before the next one
BlockStarts(text) == {i \in DOMAIN text : text[i] = "server {"}
BlockEnd(text, s) ==
    LET later == {i \in BlockStarts(text) : i > s}
    IN IF later = {} THEN Len(text) ELSE (CHOOSE i \in later : \A j \in later : i <= j) - 1
Block(text, s) == SubSeq(text, s, BlockEnd(text, s))
FirstBlock(text) == Block(text, CHOOSE s \in BlockStarts(text) : \A t \in BlockStarts(text) : s <= t)
LaterBlocks(text) ==
    {Block(text, s) : s \in {t \in BlockStarts(text) : \E u \in BlockStarts(text) : u < t}}
IsServerNameLine(line) == \E d \in Domains \cup {"undefined"} : line = ServerNameLine(d)
IsRedirectBlock(block, domain) ==
    /\ HasLine(block, "listen 80;")
    /\ HasLine(block, ServerNameLine(domain))
    /\ HasLine(block, "return 301 https://$host$request_uri;")
HasRedirect(text) == \E b \in LaterBlocks(text) : HasLine(b, "return 301 https://$host$request_uri;")

\* the port a location of a configuration proxies to
ProxiesTo(text, location, port) ==
    \E i \in DOMAIN text : /\ text[i] = location
                           /\ i < Len(text)
                           /\ text[i + 1] = ProxyPassLine(port)

(***************************************************************************)
(* C1.  The two directories are consistent when every entry of             *)
(* sites-enabled is a symlink to the file of the same name in              *)
(* sites-available.                                                        *)
(***************************************************************************)
Consistent ==
    \A n \in DOMAIN sitesEnabled :
        sitesEnabled[n] = Symlink(n) /\ n \in DOMAIN sitesAvailable

EnabledAfterAdd ==
    Succeeded(run', "outputFile") =>
        /\ WrittenName(run') \in DOMAIN sitesAvailable'
        /\ WrittenName(run') \in DOMAIN sitesEnabled'
        /\ sitesEnabled'[WrittenName(run')] = Symlink(WrittenName(run'))

SideEffects == {"outputFile", "ensureSymlink", "certbot", "nginx -s reload"}
Before(r, first, second) ==
    \A i \in Steps(r, first), j \in Steps(r, second) : i < j

C2_AddSiteOrder ==
    run.cmd = "add-site" =>
        /\ \A op \in SideEffects : Cardinality(Steps(run, op)) <= 1
        /\ Steps(run, "ensureSymlink") # {} => Succeeded(run, "outputFile")
        /\ Steps(run, "certbot") # {} => Succeeded(run, "ensureSymlink")
        /\ Steps(run, "nginx -s reload") # {} => Succeeded(run, "ensureSymlink")
        /\ Before(run, "outputFile", "ensureSymlink")
        /\ Before(run, "ensureSymlink", "certbot")
        /\ Before(run, "certbot", "nginx -s reload")
        /\ Succeeded(run, "ensureSymlink") =>
              (Steps(run, "certbot") # {} <=> (run.args.domain /\ run.args.ssl))
        /\ \A i \in Steps(run, "nginx -s reload") : i = Len(run.trace)
        /\ Steps(run, "nginx -s reload") # {} =>
              /\ WrittenName(run) \in DOMAIN sitesAvailable
              /\ WrittenName(run) \in DOMAIN sitesEnabled
              /\ sitesEnabled[WrittenName(run)].kind = "symlink"

(***************************************************************************)
(* C3.  When add-site completes, whatever the two directories held before, *)
(* sites-available/n holds the newly generated configuration and           *)
(* sites-enabled/n is a symlink to sites-available/n.                      *)
(***************************************************************************)
C3_AddSiteReplaces ==
    (run.cmd = "add-site" /\ Completed(run)) =>
        LET n == WrittenName(run)
        IN /\ n \in DOMAIN sitesAvailable
           /\ sitesAvailable[n] =
                 generateNginxConfig(FieldOnDisk(run, "domain"),
                                     FieldOnDisk(run, "frontendPort"),
                                     FieldOnDisk(run, "backendPort"),
                                     run.args.domain, run.args.ssl)
           /\ n \in DOMAIN sitesEnabled
           /\ sitesEnabled[n] = Symlink(n)

(***************************************************************************)
(* C4.  add-site with useDomain false, with or without --no-ssl, writes a  *)
(* file named site_<frontendPort>_<backendPort> that holds a "listen 80;"  *)
(* line, no server_name line and no redirect server block.                 *)
(***************************************************************************)
C4_NoDomainListens80 ==
    (run.cmd = "add-site" /\ ~run.args.domain /\ Succeeded(run, "outputFile")) =>
        LET n == WrittenName(run)
            text == sitesAvailable[n]
        IN /\ n = "site_" \o FieldOnDisk(run, "frontendPort") \o "_"
                          \o FieldOnDisk(run, "backendPort")
           /\ HasLine(text, "listen 80;")
           /\ \A i \in DOMAIN text : ~IsServerNameLine(text[i])
           /\ ~HasRedirect(text)

(***************************************************************************)
(* C5.  The configuration an add-site run writes holds the redirect block  *)
(* (listen 80, server_name d, return 301 to https) exactly when useDomain  *)
(* and useSSL are both true; with both true the file is named d and its    *)
(* first block holds "server_name d;" and "listen 443 ssl;"; the first     *)
(* block listens on 443 with TLS exactly when useSSL is true and on 80     *)
(* otherwise.                                                              *)
(***************************************************************************)
C5_RedirectIffDomainAndSsl ==
    (run.cmd = "add-site" /\ Succeeded(run, "outputFile")) =>
        LET n == WrittenName(run)
            text == sitesAvailable[n]
            d == FieldOnDisk(run, "domain")
            first == FirstBlock(text)
            both == run.args.domain /\ run.args.ssl
        IN /\ HasRedirect(text) <=> both
           /\ (\E b \in LaterBlocks(text) : IsRedirectBlock(b, d)) <=> both
           /\ Cardinality(BlockStarts(text)) = IF both THEN 2 ELSE 1
           /\ both => /\ n = d
                      /\ HasLine(first, ServerNameLine(d))
                      /\ HasLine(first, "listen 443 ssl;")
           /\ HasLine(first, "listen 443 ssl;") <=> run.args.ssl
           /\ HasLine(first, "ssl_certificate /etc/letsencrypt/live/" \o d \o "/fullchain.pem;")
                 <=> run.args.ssl
           /\ HasLine(first, "listen 80;") <=> ~run.args.ssl

C5_Witness ==
    /\ run.cmd = "add-site"
    /\ Succeeded(run, "outputFile")
    /\ run.args.domain /\ run.args.ssl
    /\ FieldOnDisk(run, "domain") = "app.test"
    /\ Cardinality(BlockStarts(sitesAvailable["app.test"])) = 2

(***************************************************************************)
(* C6.  remove-site with an identifier that neither directory holds        *)
(* completes without an error and changes nothing; a remove-site run that  *)
(* completes has removed exactly the entries of its identifier, so a       *)
(* second run with the same identifier changes nothing; the paths removed  *)
(* are those of the identifier the user supplied.                          *)
(***************************************************************************)
SameElsewhere(before, after, name) ==
    /\ DOMAIN after = DOMAIN before \ {name}
    /\ \A n \in DOMAIN after : after[n] = before[n]

C6_RemoveExactlyTheName ==
    [][(run'.cmd = "remove-site" /\ run'.status # "exited") =>
          LET d == run'.args.domain
          IN /\ (d \notin DOMAIN sitesAvailable /\ d \notin DOMAIN sitesEnabled) =>
                   /\ Completed(run')
                   /\ run'.exit = 0
                   /\ UNCHANGED <<sitesAvailable, sitesEnabled, nginxDirs>>
             /\ Completed(run') =>
                   /\ SameElsewhere(sitesAvailable, sitesAvailable', d)
                   /\ SameElsewhere(sitesEnabled, sitesEnabled', d)
             /\ \A i \in Steps(run', "remove available") \cup Steps(run', "remove enabled") :
                   run'.trace[i].arg = d]_vars

(***************************************************************************)
(* C7.  list-sites prints every entry of sites-enabled exactly once,       *)
(* tagged enabled, and every entry of sites-available that sites-enabled   *)
(* lacks exactly once, tagged disabled; an entry of both is never printed  *)
(* as disabled; the enabled lines come before the disabled lines; the two  *)
(* directories are left as they were.                                      *)
(***************************************************************************)
Occurrences(out, line) == Cardinality({i \in DOMAIN out : out[i] = line})
ListedNames == DOMAIN sitesAvailable \cup DOMAIN sitesEnabled \cup Identifiers

C7_ListSitesOutput ==
    [][run'.cmd = "list-sites" =>
          /\ UNCHANGED <<sitesAvailable, sitesEnabled, nginxDirs>>
          /\ Completed(run') =>
                LET out == run'.out
                IN /\ \A n \in ListedNames :
                         /\ Occurrences(out, EnabledLine(n))
                               = IF n \in DOMAIN sitesEnabled THEN 1 ELSE 0
                         /\ Occurrences(out, DisabledLine(n))
                               = IF n \in DOMAIN sitesAvailable \ DOMAIN sitesEnabled
                                 THEN 1 ELSE 0
                   /\ \A i, j \in DOMAIN out :
                         (/\ \E n \in ListedNames : out[i] = EnabledLine(n)
                          /\ \E n \in ListedNames : out[j] = DisabledLine(n)) => i < j]_vars

C7_Witness ==
    /\ run.cmd = "list-sites"
    /\ Completed(run)
    /\ \E n \in DOMAIN sitesEnabled : n \in DOMAIN sitesAvailable
    /\ \E n \in DOMAIN sitesEnabled : n \notin DOMAIN sitesAvailable
    /\ \E n \in DOMAIN sitesAvailable :
          n \notin DOMAIN sitesEnabled /\ Printed(run, DisabledLine(n))

(***************************************************************************)
(* C8.  The App Setup Tool exits non-zero exactly when a file-generation   *)
(* step fails; then no later step runs (no container launch, no            *)
(* process-manager install) and the files already written stay; a failure  *)
(* of the container launch or of the process-manager install aborts        *)
(* nothing, the completion message is printed and the exit status is zero; *)
(* the process-manager install runs only with the pm2 flag and only after  *)
(* the container launch.                                                   *)
(***************************************************************************)
C8_SetupExit ==
    run.cmd = "app-setup" =>
        LET launch == Steps(run, "docker-compose up -d")
            install == Steps(run, "npm install -g pm2")
            frontend == PathJoin(PathJoin(run.args.projectPath, "frontend"), "Dockerfile")
        IN /\ run.exit # 0 <=> Failed(run, "write")
           /\ Failed(run, "write") =>
                 /\ \A i \in Steps(run, "write") : ~run.trace[i].ok => i = Len(run.trace)
                 /\ launch = {} /\ install = {}
                 /\ \A i \in Steps(run, "write") :
                       run.trace[i].ok => run.trace[i].arg \in DOMAIN disk
                 /\ Succeeded(run, "write") => disk[frontend] = FrontendDockerfile
                 /\ ~Printed(run, "App setup completed successfully!")
           /\ ~Failed(run, "write") =>
                 /\ run.exit = 0
                 /\ Cardinality(Steps(run, "write")) = 4
                 /\ Cardinality(launch) = 1
                 /\ Cardinality(install) = IF run.args.pm2 THEN 1 ELSE 0
                 /\ Before(run, "write", "docker-compose up -d")
                 /\ Before(run, "docker-compose up -d", "npm install -g pm2")
                 /\ run.out[Len(run.out)] = "App setup completed successfully!"

C8_Witness ==
    /\ run.cmd = "app-setup"
    /\ Failed(run, "docker-compose up -d")
    /\ Succeeded(run, "npm install -g pm2")
    /\ run.exit = 0
    /\ Printed(run, "App setup completed successfully!")

(***************************************************************************)
(* C9.  The Site Manager Tool and its exit status.                         *)
(***************************************************************************)
SiteCommands == {"add-site", "remove-site", "list-sites"}
PresenceSteps == {"which nginx", "apt-get update", "apt-get install"}
FileSystemSteps == {"readJson", "outputFile", "ensureSymlink", "remove available",
                    "remove enabled", "readdir"}
InstallFailed(r) == Failed(r, "apt-get update") \/ Failed(r, "apt-get install")
SuccessLine(r) ==
    IF r.cmd = "add-site" THEN "Site " \o WrittenName(r) \o " added successfully!"
    ELSE "Site " \o r.args.domain \o " removed successfully!"

InstallFailureEndsFirst ==
    InstallFailed(run) =>
        /\ run.exit = 1
        /\ \A i \in DOMAIN run.trace : run.trace[i].op \in PresenceSteps
        /\ run.status = "exited"

CaughtFailuresContinue ==
    (Failed(run, "certbot") \/ Failed(run, "nginx -s reload")) =>
        /\ Completed(run)
        /\ run.exit = 0
        /\ Steps(run, "nginx -s reload") # {}
        /\ Failed(run, "certbot") => Printed(run, "Error obtaining SSL certificate:")
        /\ Failed(run, "nginx -s reload") => Printed(run, "Error reloading Nginx:")
        /\ run.out[Len(run.out)] = SuccessLine(run)

\* C9 as claimed: the exit status is non-zero only if the installation of the
\* web server failed, and then nothing else was done; a failure of the
\* certificate client or of the reload is caught and the success message is
\* still printed.
C9_NonZeroOnlyOnInstallFailure ==
    run.cmd \in SiteCommands =>
        /\ run.exit # 0 => InstallFailed(run)
        /\ InstallFailureEndsFirst
        /\ CaughtFailuresContinue

\* C9 amended: the exit status is non-zero only if the installation of the
\* web server failed or a file-system call of the handler raised (the last
\* step of the run: the rejection has no handler and the status is the
\* runtime's); a failed installation ends the process with status 1 before
\* any other step; a failure of the certificate client or of the reload is
\* caught and logged and the success message is still printed; with neither
\* a failed installation nor a raising file-system call the status is zero.
C9_NonZeroOnlyOnInstallOrFileError ==
    run.cmd \in SiteCommands =>
        LET raised == {i \in DOMAIN run.trace :
                          run.trace[i].op \in FileSystemSteps /\ ~run.trace[i].ok}
        IN /\ run.exit # 0 => (InstallFailed(run) \/ raised # {})
           /\ raised # {} => (raised = {Len(run.trace)} /\ run.exit = rejectionExit)
           /\ InstallFailureEndsFirst
           /\ CaughtFailuresContinue
           /\ (~InstallFailed(run) /\ raised = {}) => (Completed(run) /\ run.exit = 0)

C9_Witness ==
    /\ run.cmd = "add-site"
    /\ Failed(run, "nginx -s reload")
    /\ Succeeded(run, "certbot")
    /\ run.exit = 0
    /\ Printed(run, "Site example.com added successfully!")

(***************************************************************************)
(* C10.  After the generation steps of the App Setup Tool, metadata.json   *)
(* holds exactly the fields domain, frontendPort and backendPort, each the *)
(* input as a string, whatever the file held before; an add-site run that  *)
(* reads the file proxies the root location to its frontendPort and the    *)
(* /api location to its backendPort.                                       *)
(***************************************************************************)
QuotedField(key, value) == "  \"" \o key \o "\": \"" \o value \o "\""

C10_MetadataRoundTrip ==
    /\ (run.cmd = "app-setup"
          /\ \E i \in Steps(run, "write") :
                run.trace[i] = Effect("write", PathJoin(run.args.projectPath, "metadata.json"), TRUE))
       => disk[PathJoin(run.args.projectPath, "metadata.json")]
             = << "{", QuotedField("domain", run.args.domain),
                  QuotedField("frontendPort", run.args.frontendPort),
                  QuotedField("backendPort", run.args.backendPort), "}" >>
    /\ (run.cmd = "add-site" /\ Succeeded(run, "outputFile"))
       => \E frontendPort, backendPort \in Ports :
             /\ HasLine(disk[run.args.metadata], QuotedField("frontendPort", frontendPort))
             /\ HasLine(disk[run.args.metadata], QuotedField("backendPort", backendPort))
             /\ ProxiesTo(sitesAvailable[WrittenName(run)], "location / {", frontendPort)
             /\ ProxiesTo(sitesAvailable[WrittenName(run)], "location /api {", backendPort)
             /\ frontendPort # backendPort =>
                   /\ ~ProxiesTo(sitesAvailable[WrittenName(run)], "location / {", backendPort)
                   /\ ~ProxiesTo(sitesAvailable[WrittenName(run)], "location /api {", frontendPort)

C10_Witness ==
    /\ run.cmd = "add-site"
    /\ Succeeded(run, "outputFile")
    /\ disk[run.args.metadata] = << "{", QuotedField("domain", "app.test"),
                                    QuotedField("frontendPort", "5000"),
                                    QuotedField("backendPort", "3000"), "}" >>
    /\ ProxiesTo(sitesAvailable[WrittenName(run)], "location / {", "5000")

====
